---- MODULE Spec2Model ----
(***************************************************************************)
(* Model of src/src/cl_parser.c: cl_parser(), the command-line parser of   *)
(* strace.ebpf.  One loop iteration is a call of getopt_long() followed by *)
(* the switch on its result; the loop is left by `break' (getopt_long      *)
(* returned -1) or by exit().                                              *)
(*                                                                         *)
(* A C string is a sequence of one-character strings, argv is a sequence   *)
(* of C strings with argv[0] (the program name) at position 1, and optind  *)
(* keeps its C value: the token optind names is argv[optind + 1].          *)
(***************************************************************************)
EXTENDS Integers, Sequences, FiniteSets, TLC

VARIABLES argv, optind, nextchar, optarg, c, pc, clo, Out_lf_fmt,
          output, exit_status, retval, res

vars == <<argv, optind, nextchar, optarg, c, pc, clo, Out_lf_fmt,
          output, exit_status, retval, res>>

(***************************************************************************)
(* Bounds of the model.                                                    *)
(***************************************************************************)
\* the longest generated command line (tokens after argv[0])
MaxArgs == 3

(***************************************************************************)
(* Program constants.                                                      *)
(***************************************************************************)
EXIT_SUCCESS == 0
EXIT_FAILURE == 1
no_argument == 0
required_argument == 1
optional_argument == 2

\* optarg == NULL; no C string of the model is this sequence
NULL == <<"NULL">>
\* getopt_long() == -1
EOF == "-1"

(***************************************************************************)
(* C strings.                                                              *)
(***************************************************************************)
UpperCase == <<"A","B","C","D","E","F","G","H","I","J","K","L","M",
               "N","O","P","Q","R","S","T","U","V","W","X","Y","Z">>
LowerCase == <<"a","b","c","d","e","f","g","h","i","j","k","l","m",
               "n","o","p","q","r","s","t","u","v","w","x","y","z">>
Digits == <<"0","1","2","3","4","5","6","7","8","9">>

\* the first position of ch in s, 0 when it does not occur (strchr)
IndexOf(s, ch) ==
    IF \E i \in 1..Len(s) : s[i] = ch
    THEN CHOOSE i \in 1..Len(s) : s[i] = ch /\ \A j \in 1..(i-1) : s[j] # ch
    ELSE 0

\* s[i] of a C string: the terminating NUL at and past its end
CharAt(s, i) == IF i \in 1..Len(s) THEN s[i] ELSE "NUL"

tolower(ch) == IF IndexOf(UpperCase, ch) = 0 THEN ch
               ELSE LowerCase[IndexOf(UpperCase, ch)]

\* (mutant) strcmp: the comparison minds the case
strcasecmp_as_strcmp(a, b) == IF a = b THEN 0 ELSE 1

\* 0 iff the strings are equal up to the case of their letters
strcasecmp(a, b) ==
    IF Len(a) = Len(b) /\ \A i \in 1..Len(a) : tolower(a[i]) = tolower(b[i])
    THEN 0 ELSE 1

isspace(ch) == ch \in {" ", "\t", "\n"}

RECURSIVE SkipSpace(_)
SkipSpace(s) == IF s # <<>> /\ isspace(Head(s)) THEN SkipSpace(Tail(s)) ELSE s

RECURSIVE DigitsValue(_, _)
DigitsValue(s, acc) ==
    IF s # <<>> /\ IndexOf(Digits, Head(s)) # 0
    THEN DigitsValue(Tail(s), 10 * acc + (IndexOf(Digits, Head(s)) - 1))
    ELSE acc

\* atoi(): white space, an optional sign, then the longest run of digits;
\* whatever follows the digits is ignored, and no digits at all give 0.
\* (The strings of the model stay far below INT_MAX.)
atoi(s) ==
    LET t == SkipSpace(s) IN
    IF t # <<>> /\ Head(t) = "-" THEN 0 - DigitsValue(Tail(t), 0)
    ELSE IF t # <<>> /\ Head(t) = "+" THEN DigitsValue(Tail(t), 0)
    ELSE DigitsValue(t, 0)

IsPrefix(a, b) == Len(a) <= Len(b) /\ SubSeq(b, 1, Len(a)) = a

(***************************************************************************)
(* The option schema: long_options[] and the optstring of getopt_long().   *)
(***************************************************************************)
long_options == <<
    [name |-> <<"t","i","m","e","s","t","a","m","p">>,
     has_arg |-> no_argument, val |-> "t"],
    [name |-> <<"f","a","i","l","e","d">>,
     has_arg |-> no_argument, val |-> "X"],
    [name |-> <<"h","e","l","p">>,
     has_arg |-> no_argument, val |-> "h"],
    [name |-> <<"d","e","b","u","g">>,
     has_arg |-> no_argument, val |-> "d"],
    [name |-> <<"l","i","s","t">>,
     has_arg |-> no_argument, val |-> "L"],
    [name |-> <<"l","l","-","l","i","s","t">>,
     has_arg |-> no_argument, val |-> "R"],
    [name |-> <<"b","u","i","l","t","i","n","-","l","i","s","t">>,
     has_arg |-> no_argument, val |-> "B"],
    [name |-> <<"n","o","-","p","r","o","g","r","e","s","s">>,
     has_arg |-> no_argument, val |-> "r"],
    [name |-> <<"p","i","d">>,
     has_arg |-> required_argument, val |-> "p"],
    [name |-> <<"f","o","r","m","a","t">>,
     has_arg |-> required_argument, val |-> "l"],
    [name |-> <<"s","t","r","i","n","g","-","a","r","g","s">>,
     has_arg |-> required_argument, val |-> "s"],
    [name |-> <<"e","x","p","r">>,
     has_arg |-> required_argument, val |-> "e"],
    [name |-> <<"o","u","t","p","u","t">>,
     has_arg |-> required_argument, val |-> "o"],
    [name |-> <<"e","b","p","f","-","s","r","c","-","d","i","r">>,
     has_arg |-> required_argument, val |-> "N"],
    [name |-> <<"h","e","x","-","s","e","p","a","r","a","t","o","r">>,
     has_arg |-> required_argument, val |-> "K"],
    [name |-> <<"f","u","l","l","-","f","o","l","l","o","w","-","f","o","r","k">>,
     has_arg |-> optional_argument, val |-> "f"] >>

\* (mutant) the descriptor of "failed" carries the value of "timestamp"
LongOption_failed_as_t(i) ==
    IF long_options[i].val = "X" THEN [long_options[i] EXCEPT !.val = "t"]
    ELSE long_options[i]

\* the i-th descriptor of long_options[]
LongOption(i) == long_options[i]

\* (mutant) the option string with "f:": -f takes the next token as its value
optstring_f_required ==
    <<"+","t","X","h","d","L","R","B","r","p",":","l",":","s",":",
      "e",":","o",":","N",":","K",":","f",":">>

\* (mutant) the option string with "o::": -o takes only an attached value
optstring_o_optional ==
    <<"+","t","X","h","d","L","R","B","r","p",":","l",":","s",":",
      "e",":","o",":",":","N",":","K",":","f",":",":">>

\* "+tXhdLRBrp:l:s:e:o:N:K:f::"
optstring == <<"+","t","X","h","d","L","R","B","r","p",":","l",":","s",":",
               "e",":","o",":","N",":","K",":","f",":",":">>

\* getopt skips a leading '+' (it asks for REQUIRE_ORDER: no permutation of
\* argv, the scan stops at the first non-option)
ShortOptions == IF Head(optstring) = "+" THEN Tail(optstring) ELSE optstring

(***************************************************************************)
(* getopt_long(argc, argv, optstring, long_options, &option_index), as the *)
(* C library scans with REQUIRE_ORDER.  Its state between calls is optind  *)
(* and nextchar, the rest of a cluster of short options still to be        *)
(* scanned (empty when the next call starts a new token).  With opterr     *)
(* left at 1 and no ':' at the head of the option string, it reports its   *)
(* own errors on stderr and returns '?' for each of them.                  *)
(***************************************************************************)
argc(av) == Len(av)
Arg(av, i) == av[i + 1]

\* a token that is no option: it does not start with '-', or it is "-"
NonOption(tok) == CharAt(tok, 1) # "-" \/ CharAt(tok, 2) = "NUL"

Stderr(text) == [stream |-> "stderr", text |-> text]
Stdout(text) == [stream |-> "stdout", text |-> text]
\* the ERROR() and INFO() macros write a log line
ERROR(text) == [stream |-> "ERROR", text |-> text]
INFO(text) == [stream |-> "INFO", text |-> text]

GetoptResult(ch, arg, oi, nc, err) ==
    [c |-> ch, optarg |-> arg, optind |-> oi, nextchar |-> nc, err |-> err]

\* the name of a long option: the characters before '=' (or all of them)
NameEnd(s) == IF IndexOf(s, "=") = 0 THEN Len(s) + 1 ELSE IndexOf(s, "=")

\* the entries of long_options a name selects: the exact match when there
\* is one, else every entry the name abbreviates
LongMatches(name) ==
    LET exact == {i \in 1..Len(long_options) : LongOption(i).name = name}
    IN  IF exact # {} THEN exact
        ELSE {i \in 1..Len(long_options) : IsPrefix(name, LongOption(i).name)}

\* a token "--name" or "--name=value"; s is what follows the "--"
process_long_option(av, oi, s) ==
    LET name  == SubSeq(s, 1, NameEnd(s) - 1)
        found == LongMatches(name)
    IN  IF Cardinality(found) > 1
        THEN GetoptResult("?", NULL, oi + 1, <<>>,
                          <<Stderr("getopt: option is ambiguous")>>)
        ELSE IF found = {}
        THEN GetoptResult("?", NULL, oi + 1, <<>>,
                          <<Stderr("getopt: unrecognized option")>>)
        ELSE LET p == LongOption(CHOOSE i \in found : TRUE) IN
             IF NameEnd(s) <= Len(s)
             THEN IF p.has_arg # no_argument
                  THEN GetoptResult(p.val, SubSeq(s, NameEnd(s) + 1, Len(s)),
                                    oi + 1, <<>>, <<>>)
                  ELSE GetoptResult("?", NULL, oi + 1, <<>>,
                          <<Stderr("getopt: option doesn't allow an argument")>>)
             ELSE IF p.has_arg = required_argument
             THEN IF oi + 1 < argc(av)
                  THEN GetoptResult(p.val, Arg(av, oi + 1), oi + 2, <<>>, <<>>)
                  ELSE GetoptResult("?", NULL, oi + 1, <<>>,
                          <<Stderr("getopt: option requires an argument")>>)
             ELSE GetoptResult(p.val, NULL, oi + 1, <<>>, <<>>)

\* the next character of a cluster of short options; nc is the cluster
short_option(av, oi, nc) ==
    LET ch   == Head(nc)
        rest == Tail(nc)
        oi1  == IF rest = <<>> THEN oi + 1 ELSE oi
        at   == IndexOf(ShortOptions, ch)
    IN  IF at = 0 \/ ch = ":" \/ ch = ";"
        THEN GetoptResult("?", NULL, oi1, rest,
                          <<Stderr("getopt: invalid option")>>)
        ELSE IF CharAt(ShortOptions, at + 1) # ":"
        THEN GetoptResult(ch, NULL, oi1, rest, <<>>)
        ELSE IF CharAt(ShortOptions, at + 2) = ":"
        THEN \* optional argument: only what is attached to the option
             IF rest # <<>>
             THEN GetoptResult(ch, rest, oi + 1, <<>>, <<>>)
             ELSE GetoptResult(ch, NULL, oi1, <<>>, <<>>)
        ELSE \* required argument: attached, or the next token whatever it is
             IF rest # <<>>
             THEN GetoptResult(ch, rest, oi + 1, <<>>, <<>>)
             ELSE IF oi1 = argc(av)
             THEN GetoptResult("?", NULL, oi1, <<>>,
                          <<Stderr("getopt: option requires an argument")>>)
             ELSE GetoptResult(ch, Arg(av, oi1), oi1 + 1, <<>>, <<>>)

\* the first element at or after oi that is an option, argc when none is
FirstOption(av, oi) ==
    IF \E k \in oi..(argc(av) - 1) : ~NonOption(Arg(av, k))
    THEN CHOOSE k \in oi..(argc(av) - 1) :
             /\ ~NonOption(Arg(av, k))
             /\ \A j \in oi..(k - 1) : NonOption(Arg(av, j))
    ELSE argc(av)

\* (mutant) the scan without REQUIRE_ORDER: non-options are passed over and
\* the options behind them are still scanned
getopt_long_permute(av, oi, nc) ==
    LET k == FirstOption(av, oi) IN
    IF nc # <<>> THEN short_option(av, oi, nc)
    ELSE IF k = argc(av) THEN GetoptResult(EOF, NULL, oi, <<>>, <<>>)
    ELSE IF Arg(av, k) = <<"-", "-">>
    THEN GetoptResult(EOF, NULL, k + 1, <<>>, <<>>)
    ELSE IF CharAt(Arg(av, k), 2) = "-"
    THEN process_long_option(av, k, SubSeq(Arg(av, k), 3, Len(Arg(av, k))))
    ELSE short_option(av, k, Tail(Arg(av, k)))

getopt_long(av, oi, nc) ==
    IF nc # <<>> THEN short_option(av, oi, nc)
    ELSE IF oi # argc(av) /\ Arg(av, oi) = <<"-", "-">>
    THEN GetoptResult(EOF, NULL, oi + 1, <<>>, <<>>)
    ELSE IF oi = argc(av) THEN GetoptResult(EOF, NULL, oi, <<>>, <<>>)
    ELSE IF NonOption(Arg(av, oi)) THEN GetoptResult(EOF, NULL, oi, <<>>, <<>>)
    ELSE IF CharAt(Arg(av, oi), 2) = "-"
    THEN process_long_option(av, oi, SubSeq(Arg(av, oi), 3, Len(Arg(av, oi))))
    ELSE short_option(av, oi, Tail(Arg(av, oi)))

(***************************************************************************)
(* The state of one call of cl_parser() as a record, so that a step is a   *)
(* function of the state and a whole run can be computed.                  *)
(***************************************************************************)
State ==
    [argv |-> argv, optind |-> optind, nextchar |-> nextchar,
     optarg |-> optarg, c |-> c, pc |-> pc, clo |-> clo,
     Out_lf_fmt |-> Out_lf_fmt, output |-> output,
     exit_status |-> exit_status, retval |-> retval, res |-> res]

\* the caller's *clo before the call: its documented defaults
InitClo ==
    [do_not_print_progress |-> 0, timestamp |-> FALSE, failed |-> FALSE,
     debug |-> FALSE, pid |-> -1, out_fn |-> NULL, out_lf_fld_sep_ch |-> " ",
     ebpf_src_dir |-> NULL, expr |-> NULL, out_fmt_str |-> NULL,
     fnr_mode |-> [fn |-> "default", arg |-> <<>>],
     ff_mode |-> "E_FF_DISABLED", ff_separate_logs |-> FALSE,
     command |-> FALSE]

\* the state on entry of cl_parser(clo, argc, argv): the first getopt_long()
\* call of the process scans from optind = 1
InitState(av) ==
    [argv |-> av, optind |-> 1, nextchar |-> <<>>, optarg |-> NULL,
     c |-> EOF, pc |-> "loop", clo |-> InitClo,
     Out_lf_fmt |-> [fn |-> "default", arg |-> <<>>], output |-> <<>>,
     exit_status |-> EXIT_SUCCESS, retval |-> 0, res |-> 0]

\* the external lookups, left uninterpreted: the result names the argument
out_fmt_str2enum(str) == [fn |-> "out_fmt_str2enum", arg |-> str]
choose_fnr_mode(str) == [fn |-> "choose_fnr_mode", arg |-> str]

\* exit(status) after writing `events': the exit status of the process is
\* the low 8 bits of status (status & 0377)
Exit(S, events, status) ==
    [S EXCEPT !.output = @ \o events, !.exit_status = status % 256,
              !.pc = "exited"]

\* `break' out of the switch: the loop calls getopt_long() again
Break(S) == [S EXCEPT !.pc = "loop"]

\* check_optarg(optarg) exits when optarg is NULL
check_optarg(S) ==
    Exit(S, <<ERROR("missing mandatory option's argument"),
              Stderr("fprint_help")>>, EXIT_FAILURE)

\* (mutant) getopt_long leaves optind and nextchar where they were
GetoptStep_no_advance(S) ==
    LET g == getopt_long(S.argv, S.optind, S.nextchar) IN
    [S EXCEPT !.c = g.c, !.optarg = g.optarg, !.output = @ \o g.err,
              !.pc = IF g.c = EOF THEN "break" ELSE "switch"]

\* c = getopt_long(...); if (c == -1) break;
GetoptStep(S) ==
    LET g == getopt_long(S.argv, S.optind, S.nextchar) IN
    [S EXCEPT !.c = g.c, !.optarg = g.optarg, !.optind = g.optind,
              !.nextchar = g.nextchar, !.output = @ \o g.err,
              !.pc = IF g.c = EOF THEN "break" ELSE "switch"]

\* (mutant) a pid that is already set is kept
case_p_keep_first(S) ==
    IF S.optarg = NULL THEN check_optarg(S)
    ELSE LET T == [S EXCEPT !.clo.pid = IF @ = -1 THEN atoi(S.optarg) ELSE @] IN
         IF T.clo.pid < 1
         THEN Exit(T, <<ERROR("wrong value for pid option")>>, EXIT_FAILURE)
         ELSE Break(T)

case_p(S) ==
    IF S.optarg = NULL THEN check_optarg(S)
    ELSE LET T == [S EXCEPT !.clo.pid = atoi(S.optarg)] IN
         IF T.clo.pid < 1
         THEN Exit(T, <<ERROR("wrong value for pid option")>>,
                   EXIT_FAILURE)
         ELSE Break(T)

\* (mutant) the value is stored before it is compared with the reserved words
case_e_store_first(S) ==
    LET T == [S EXCEPT !.clo.expr = S.optarg] IN
    IF S.optarg = NULL THEN check_optarg(S)
    ELSE IF strcasecmp(S.optarg, <<"l","i","s","t">>) = 0
            \/ strcasecmp(S.optarg, <<"h","e","l","p">>) = 0
    THEN Exit(T, <<INFO("list of supported expressions")>>, EXIT_SUCCESS)
    ELSE IF strcasecmp(S.optarg, <<"t","r","a","c","e","=","h","e","l","p">>) = 0
            \/ strcasecmp(S.optarg, <<"t","r","a","c","e","=","l","i","s","t">>) = 0
    THEN Exit(T, <<Stderr("fprint_trace_list"),
                   INFO("you can combine sets")>>, EXIT_SUCCESS)
    ELSE Break(T)

case_e(S) ==
    IF S.optarg = NULL THEN check_optarg(S)
    ELSE IF strcasecmp(S.optarg, <<"l","i","s","t">>) = 0
            \/ strcasecmp(S.optarg, <<"h","e","l","p">>) = 0
    THEN Exit(S, <<INFO("list of supported expressions")>>,
              EXIT_SUCCESS)
    ELSE IF strcasecmp(S.optarg, <<"t","r","a","c","e","=","h","e","l","p">>) = 0
            \/ strcasecmp(S.optarg, <<"t","r","a","c","e","=","l","i","s","t">>) = 0
    THEN Exit(S, <<Stderr("fprint_trace_list"),
                   INFO("you can combine sets")>>, EXIT_SUCCESS)
    ELSE Break([S EXCEPT !.clo.expr = S.optarg])

case_l(S) ==
    IF S.optarg = NULL THEN check_optarg(S)
    ELSE IF strcasecmp(S.optarg, <<"l","i","s","t">>) = 0
            \/ strcasecmp(S.optarg, <<"h","e","l","p">>) = 0
    THEN Exit(S, <<INFO("list of supported formats")>>, EXIT_SUCCESS)
    ELSE Break([S EXCEPT !.clo.out_fmt_str = S.optarg,
                         !.Out_lf_fmt = out_fmt_str2enum(S.optarg)])

\* (mutant) the statuses of r = 1 and r = 0 exchanged
case_B_swapped(S, r) ==
    LET T == [S EXCEPT !.res = r] IN
    IF r = 1 THEN Exit(T, <<Stdout("print_syscalls_table")>>, EXIT_FAILURE)
    ELSE IF r = 0 THEN Exit(T, <<Stdout("print_syscalls_table")>>, EXIT_SUCCESS)
    ELSE Exit(T, <<Stdout("print_syscalls_table")>>, r)

\* res = print_syscalls_table(stdout), which returns r
case_B(S, r) ==
    LET T == [S EXCEPT !.res = r] IN
    IF r = 1 THEN Exit(T, <<Stdout("print_syscalls_table")>>, EXIT_SUCCESS)
    ELSE IF r = 0 THEN Exit(T, <<Stdout("print_syscalls_table")>>, EXIT_FAILURE)
    ELSE Exit(T, <<Stdout("print_syscalls_table")>>, r)

\* (mutant) -f without a value clears separate-logs
case_f_clears(S) ==
    LET T == [S EXCEPT !.clo.ff_mode = "E_FF_FULL"] IN
    Break([T EXCEPT !.clo.ff_separate_logs = (S.optarg # NULL)])

case_f(S) ==
    LET T == [S EXCEPT !.clo.ff_mode = "E_FF_FULL"] IN
    IF S.optarg # NULL THEN Break([T EXCEPT !.clo.ff_separate_logs = TRUE])
    ELSE Break(T)

case_r(S) == Break([S EXCEPT !.clo.do_not_print_progress = 1])

\* (mutant) -t also sets failed-only
case_t_and_failed(S) ==
    Break([S EXCEPT !.clo.timestamp = TRUE, !.clo.failed = TRUE])

case_t(S) == Break([S EXCEPT !.clo.timestamp = TRUE])

case_X(S) == Break([S EXCEPT !.clo.failed = TRUE])

\* (mutant) -h exits with EXIT_FAILURE
case_h_failure(S) == Exit(S, <<Stdout("fprint_help")>>, EXIT_FAILURE)

case_h(S) == Exit(S, <<Stdout("fprint_help")>>, EXIT_SUCCESS)

case_d(S) == Break([S EXCEPT !.clo.debug = TRUE])

case_o(S) ==
    IF S.optarg = NULL THEN check_optarg(S)
    ELSE Break([S EXCEPT !.clo.out_fn = S.optarg])

\* *optarg: the first character, the NUL of an empty string
\* (mutant) the whole value is stored
case_K_whole(S) ==
    IF S.optarg = NULL THEN check_optarg(S)
    ELSE Break([S EXCEPT !.clo.out_lf_fld_sep_ch = S.optarg])

case_K(S) ==
    IF S.optarg = NULL THEN check_optarg(S)
    ELSE Break([S EXCEPT !.clo.out_lf_fld_sep_ch = CharAt(S.optarg, 1)])

case_N(S) ==
    IF S.optarg = NULL THEN check_optarg(S)
    ELSE Break([S EXCEPT !.clo.ebpf_src_dir = S.optarg])

case_s(S) ==
    IF S.optarg = NULL THEN check_optarg(S)
    ELSE Break([S EXCEPT !.clo.fnr_mode = choose_fnr_mode(S.optarg)])

case_L(S) == Exit(S, <<Stdout("get_sc_list(is_a_sc)")>>, EXIT_SUCCESS)

case_R(S) == Exit(S, <<Stdout("get_sc_list(NULL)")>>, EXIT_SUCCESS)

case_colon(S) ==
    Exit(S, <<ERROR("missing mandatory option's argument"),
              Stderr("fprint_help")>>, EXIT_FAILURE)

\* (mutant) case '?' handled as case 'h': the usage, then exit(EXIT_SUCCESS)
case_question_as_help(S) == Exit(S, <<Stdout("fprint_help")>>, EXIT_SUCCESS)

\* (mutant) case '?' without its exit(): the loop goes on
case_question_no_exit(S) == Break(S)

\* case '?': getopt_long() has reported the error itself
case_question(S) == Exit(S, <<Stderr("fprint_help")>>, EXIT_FAILURE)

\* default: falls through to case '?'
case_default(S) ==
    case_question([S EXCEPT !.output = @ \o <<ERROR("unknown option")>>])

\* switch (c)
SwitchStep(S, r) ==
    CASE S.c = "r" -> case_r(S)
      [] S.c = "t" -> case_t(S)
      [] S.c = "X" -> case_X(S)
      [] S.c = "h" -> case_h(S)
      [] S.c = "d" -> case_d(S)
      [] S.c = "p" -> case_p(S)
      [] S.c = "o" -> case_o(S)
      [] S.c = "K" -> case_K(S)
      [] S.c = "N" -> case_N(S)
      [] S.c = "e" -> case_e(S)
      [] S.c = "l" -> case_l(S)
      [] S.c = "s" -> case_s(S)
      [] S.c = "L" -> case_L(S)
      [] S.c = "R" -> case_R(S)
      [] S.c = "B" -> case_B(S, r)
      [] S.c = "f" -> case_f(S)
      [] S.c = ":" -> case_colon(S)
      [] S.c = "?" -> case_question(S)
      [] OTHER     -> case_default(S)

\* (mutant) optind <= argc: a command is reported when none is left
ReturnStep_le(S) ==
    [S EXCEPT !.clo.command = IF S.optind <= argc(S.argv) THEN TRUE ELSE @,
              !.retval = S.optind, !.pc = "returned"]

\* if (optind < argc) clo->command = true; return optind;
ReturnStep(S) ==
    [S EXCEPT !.clo.command = IF S.optind < argc(S.argv) THEN TRUE ELSE @,
              !.retval = S.optind, !.pc = "returned"]

Terminal(S) == S.pc \in {"returned", "exited"}

Step(S, r) ==
    CASE S.pc = "loop"   -> GetoptStep(S)
      [] S.pc = "switch" -> SwitchStep(S, r)
      [] S.pc = "break"  -> ReturnStep(S)
      [] OTHER           -> S

RECURSIVE Run(_, _)
Run(S, r) == IF Terminal(S) THEN S ELSE Run(Step(S, r), r)

\* the outcome of cl_parser(clo, argc, av) when print_syscalls_table()
\* returns r
cl_parser(av, r) == Run(InitState(av), r)

(***************************************************************************)
(* Command lines.  The tokens the generated argument vectors are built of. *)
(***************************************************************************)
prog == <<"s","t","r","a","c","e",".","e","b","p","f">>

\* the short forms
s_r == <<"-","r">>
s_t == <<"-","t">>
s_X == <<"-","X">>
s_h == <<"-","h">>
s_d == <<"-","d">>
s_L == <<"-","L">>
s_R == <<"-","R">>
s_B == <<"-","B">>
s_p == <<"-","p">>
s_l == <<"-","l">>
s_s == <<"-","s">>
s_e == <<"-","e">>
s_o == <<"-","o">>
s_N == <<"-","N">>
s_K == <<"-","K">>
s_f == <<"-","f">>

\* the long forms
l_no_progress == <<"-","-","n","o","-","p","r","o","g","r","e","s","s">>
l_timestamp == <<"-","-","t","i","m","e","s","t","a","m","p">>
l_failed == <<"-","-","f","a","i","l","e","d">>
l_help == <<"-","-","h","e","l","p">>
l_debug == <<"-","-","d","e","b","u","g">>
l_list == <<"-","-","l","i","s","t">>
l_ll_list == <<"-","-","l","l","-","l","i","s","t">>
l_builtin_list == <<"-","-","b","u","i","l","t","i","n","-","l","i","s","t">>
l_pid == <<"-","-","p","i","d">>
l_format == <<"-","-","f","o","r","m","a","t">>
l_string_args == <<"-","-","s","t","r","i","n","g","-","a","r","g","s">>
l_expr == <<"-","-","e","x","p","r">>
l_output == <<"-","-","o","u","t","p","u","t">>
l_ebpf_src_dir == <<"-","-","e","b","p","f","-","s","r","c","-","d","i","r">>
l_hex_separator == <<"-","-","h","e","x","-","s","e","p","a","r","a","t","o","r">>
l_full_follow_fork == <<"-","-","f","u","l","l","-","f","o","l","l","o","w","-","f","o","r","k">>

\* options with the value attached, clusters, abbreviations, unknown options
s_p42 == <<"-","p","4","2">>
l_pid_eq_42 == <<"-","-","p","i","d","=","4","2">>
s_fx == <<"-","f","x">>
l_full_follow_fork_eq_x == <<"-","-","f","u","l","l","-","f","o","l","l","o","w","-","f","o","r","k","=","x">>
l_full_follow_fork_eq == <<"-","-","f","u","l","l","-","f","o","l","l","o","w","-","f","o","r","k","=">>
l_timestamp_eq_x == <<"-","-","t","i","m","e","s","t","a","m","p","=","x">>
s_tX == <<"-","t","X">>
s_tp == <<"-","t","p">>
s_tZ == <<"-","t","Z">>
s_tf == <<"-","t","f">>
l_pi == <<"-","-","p","i">>
l_f == <<"-","-","f">>
s_Z == <<"-","Z">>
l_bogus == <<"-","-","b","o","g","u","s">>
DashDash == <<"-","-">>
Dash == <<"-">>

\* option values and the words of a traced command
v_42 == <<"4","2">>
v_100 == <<"1","0","0">>
v_0 == <<"0">>
v_m5 == <<"-","5">>
v_abc == <<"a","b","c">>
v_4x == <<"4","x">>
v_sp7 == <<" ","7">>
v_p7 == <<"+","7">>
v_list == <<"l","i","s","t">>
v_LIST == <<"L","I","S","T">>
v_help == <<"h","e","l","p">>
v_Help == <<"H","e","l","p">>
v_lis == <<"l","i","s">>
v_hex == <<"h","e","x">>
v_trace_list == <<"t","r","a","c","e","=","l","i","s","t">>
v_trace_help == <<"t","r","a","c","e","=","h","e","l","p">>
v_trace_HELP == <<"t","r","a","c","e","=","H","E","L","P">>
v_trace_open == <<"t","r","a","c","e","=","o","p","e","n">>
v_openat == <<"o","p","e","n","a","t">>
v_x == <<"x">>
v_anything == <<"a","n","y","t","h","i","n","g">>
v_ls == <<"l","s">>
v_empty == <<>>
v_cs == <<",",";">>
s_Kcs == s_K \o v_cs
l_hex_separator_eq == l_hex_separator \o <<"=">>

\* every sequence of at most n tokens of T after the program name
Argvs(T, n) == {<<prog>> \o s : s \in UNION {[1..k -> T] : k \in 0..n}}

(***************************************************************************)
(* The state machine: one call of cl_parser(), on an argument vector drawn *)
(* from a set of command lines.                                            *)
(***************************************************************************)
Enter(av) ==
    LET S == InitState(av) IN
    /\ argv = S.argv /\ optind = S.optind /\ nextchar = S.nextchar
    /\ optarg = S.optarg /\ c = S.c /\ pc = S.pc /\ clo = S.clo
    /\ Out_lf_fmt = S.Out_lf_fmt /\ output = S.output
    /\ exit_status = S.exit_status /\ retval = S.retval /\ res = S.res

Becomes(S) ==
    /\ argv' = S.argv /\ optind' = S.optind /\ nextchar' = S.nextchar
    /\ optarg' = S.optarg /\ c' = S.c /\ pc' = S.pc /\ clo' = S.clo
    /\ Out_lf_fmt' = S.Out_lf_fmt /\ output' = S.output
    /\ exit_status' = S.exit_status /\ retval' = S.retval /\ res' = S.res

\* what print_syscalls_table() may return
TableResults == {-1, 0, 1, 2, 255, 256, 257}

\* line 97: c = getopt_long(...)
CallGetoptLong == pc = "loop" /\ Becomes(GetoptStep(State))

\* lines 103-224: the switch on c
Switch == pc = "switch" /\ \E r \in TableResults : Becomes(SwitchStep(State, r))

\* lines 227-230: after the loop
Return == pc = "break" /\ Becomes(ReturnStep(State))

Next == CallGetoptLong \/ Switch \/ Return

Tokens == {s_t, s_p, s_o, s_h, s_B, s_l, s_Z, s_tZ, l_bogus, DashDash, Dash,
           v_100, v_ls}

\* -t -p 100 -- ls -l
Example == <<prog, s_t, s_p, v_100, DashDash, v_ls, s_l>>

Init == \E av \in Argvs(Tokens, MaxArgs) \cup {Example} : Enter(av)

Spec == Init /\ [][Next]_vars

(***************************************************************************)
(* -p / --pid                                                              *)
(***************************************************************************)
PidTokens == {s_p, l_pid, s_t, v_42, v_0, v_m5, v_abc, v_4x, v_ls}

InitPid == \E av \in Argvs(PidTokens, MaxArgs) : Enter(av)

SpecPid == InitPid /\ [][Next]_vars

\* an integer literal: an optional sign and then digits only
IsIntegerLiteral(v) ==
    LET d == IF v # <<>> /\ Head(v) \in {"-", "+"} THEN Tail(v) ELSE v IN
    d # <<>> /\ \A i \in 1..Len(d) : IndexOf(Digits, d[i]) # 0

IntegerLiteralValue(v) ==
    IF Head(v) = "-" THEN 0 - DigitsValue(Tail(v), 0)
    ELSE IF Head(v) = "+" THEN DigitsValue(Tail(v), 0)
    ELSE DigitsValue(v, 0)

\* the switch has just handled -p / --pid with the value optarg
PidHandled == c = "p" /\ pc \in {"loop", "exited"} /\ optarg # NULL

\* C1: a value of -p/--pid that is no integer, or is an integer < 1, ends
\* the run with failure status; any other value is stored as target-pid; so
\* a returned call leaves target-pid at its default or >= 1.
C1_PidValidated ==
    /\ PidHandled =>
         IF ~IsIntegerLiteral(optarg) \/ IntegerLiteralValue(optarg) < 1
         THEN pc = "exited" /\ exit_status = EXIT_FAILURE
         ELSE pc = "loop" /\ clo.pid = IntegerLiteralValue(optarg)
    /\ pc = "returned" => (clo.pid = InitClo.pid \/ clo.pid >= 1)

(***************************************************************************)
(* A required value that is missing                                        *)
(***************************************************************************)
RequiredForms == {s_p, s_l, s_s, s_e, s_o, s_N, s_K,
                  l_pid, l_format, l_string_args, l_expr, l_output,
                  l_ebpf_src_dir, l_hex_separator}

MissingTokens == RequiredForms \cup {s_t, v_42}

InitMissing == \E av \in Argvs(MissingTokens, MaxArgs) : Enter(av)

SpecMissing == InitMissing /\ [][Next]_vars

\* the scan is about to read the last token, an option that requires a value
AtLastRequired ==
    /\ pc = "loop" /\ nextchar = <<>>
    /\ optind = argc(argv) - 1
    /\ Arg(argv, optind) \in RequiredForms

\* C2: when the command line ends with an option that requires a value and
\* none follows, the run ends with failure status after the error is
\* reported and the usage is printed on stderr, and the configuration
\* (the field of that option included) is what it was before that option.
C2_MissingValueFatal ==
    AtLastRequired =>
        LET F == Run(State, 0) IN
        /\ F.pc = "exited" /\ F.exit_status = EXIT_FAILURE
        /\ F.output = output \o
               <<Stderr("getopt: option requires an argument"),
                 Stderr("fprint_help")>>
        /\ F.clo = clo /\ F.Out_lf_fmt = Out_lf_fmt

\* `-p 42 -p': the second -p has no value, target-pid is still 42
C2_Witness ==
    /\ pc = "exited" /\ exit_status = EXIT_FAILURE
    /\ argv = <<prog, s_p, v_42, s_p>> /\ optind = argc(argv)
    /\ c = "?" /\ clo.pid = 42

(***************************************************************************)
(* -f / --full-follow-fork                                                 *)
(***************************************************************************)
ForkAlone == {s_f, l_full_follow_fork}
ForkAttached == {s_fx, l_full_follow_fork_eq_x, l_full_follow_fork_eq}

ForkTokens == ForkAlone \cup ForkAttached \cup {s_tf, s_t, v_anything, v_x}

InitFork == \E av \in Argvs(ForkTokens, MaxArgs) : Enter(av)

SpecFork == InitFork /\ [][Next]_vars

\* the command line is `-f' (either form) followed by a value token
ForkThenValue ==
    /\ Len(argv) >= 3 /\ argv[2] \in ForkAlone
    /\ argv[3] \in {v_anything, v_x}

\* C3, as claimed: -f alone sets follow-fork mode = full and leaves
\* separate-logs false; -f followed by any value sets follow-fork mode =
\* full and separate-logs = true.
C3_AsClaimed ==
    pc = "returned" =>
        /\ (Len(argv) = 2 /\ argv[2] \in ForkAlone) =>
               (clo.ff_mode = "E_FF_FULL" /\ clo.ff_separate_logs = FALSE)
        /\ ForkThenValue =>
               (clo.ff_mode = "E_FF_FULL" /\ clo.ff_separate_logs = TRUE)

\* C3, amended: -f alone sets follow-fork mode = full and leaves
\* separate-logs false.  Each -f sets the mode to full and gets a value
\* exactly when one is attached to it (-fVALUE, --full-follow-fork=VALUE,
\* also the empty value after '='), and then separate-logs is true.  In
\* `-f VALUE' the next token is not the value of -f: separate-logs stays
\* false and VALUE is the first token of the command.
C3_ForkValueAttached ==
    /\ (pc = "returned" /\ Len(argv) = 2 /\ argv[2] \in ForkAlone) =>
           (clo.ff_mode = "E_FF_FULL" /\ clo.ff_separate_logs = FALSE)
    /\ (c = "f" /\ pc = "loop") =>
           /\ clo.ff_mode = "E_FF_FULL"
           /\ optarg # NULL <=> Arg(argv, optind - 1) \in ForkAttached
           /\ optarg # NULL => clo.ff_separate_logs = TRUE
    /\ (pc = "returned" /\ ForkThenValue) =>
           /\ clo.ff_mode = "E_FF_FULL" /\ clo.ff_separate_logs = FALSE
           /\ clo.command = TRUE /\ retval = 2

\* `-f anything' has returned: mode full, separate-logs false
C3_Witness ==
    /\ pc = "returned" /\ argv = <<prog, s_f, v_anything>>
    /\ clo.ff_mode = "E_FF_FULL" /\ clo.ff_separate_logs = FALSE

(***************************************************************************)
(* The returned index and the trailing command                             *)
(***************************************************************************)
\* a token written like an option: '-' and at least one more character
LooksLikeOption(tok) == Len(tok) >= 2 /\ tok[1] = "-"

\* C4: when the call returns, the returned index i satisfies 1 <= i <= argc,
\* every token before i is an option, the value of the option before it or
\* the `--' terminator, token i (when there is one) is the first token of
\* the command, and has-trailing-command is true iff i < argc.  For
\* `-t -p 100 -- ls -l': timestamp, target-pid = 100, has-trailing-command,
\* and i is the index of `ls'.
C4_ReturnedIndex ==
    pc = "returned" =>
        /\ 1 <= retval /\ retval <= argc(argv)
        /\ clo.command <=> retval < argc(argv)
        /\ \A j \in 1..(retval - 1) :
               \/ LooksLikeOption(Arg(argv, j))
               \/ j >= 2 /\ Arg(argv, j - 1) \in RequiredForms
        /\ retval < argc(argv) =>
               \/ ~LooksLikeOption(Arg(argv, retval))
               \/ Arg(argv, retval - 1) = DashDash
        /\ argv = Example =>
               /\ clo.timestamp = TRUE /\ clo.pid = 100
               /\ clo.command = TRUE
               /\ retval = 5 /\ Arg(argv, retval) = v_ls

C4_Witness ==
    /\ pc = "returned" /\ argv = Example
    /\ retval = 5 /\ clo.command = TRUE /\ clo.pid = 100

\* what may follow the options: a command and its own flags
CommandSuffixes ==
    {<<v_ls>>, <<v_ls, s_t>>, <<v_ls, s_h>>, <<v_ls, s_Z>>, <<Dash, s_p>>}

\* C5, as claimed: the tokens from the first non-option token on change
\* nothing and end nothing; the result is that of parsing the prefix before
\* that token.
C5_AsClaimed ==
    /\ (pc = "returned" /\ retval < argc(argv)) =>
           LET P == cl_parser(SubSeq(argv, 1, retval), res) IN
           /\ P.pc = "returned" /\ P.retval = retval
           /\ P.clo = clo /\ P.Out_lf_fmt = Out_lf_fmt
    /\ (pc = "returned" /\ retval = argc(argv)) =>
           \A sfx \in CommandSuffixes :
               LET F == cl_parser(argv \o sfx, res) IN
               /\ F.pc = "returned" /\ F.retval = retval
               /\ F.clo = clo /\ F.Out_lf_fmt = Out_lf_fmt

\* C5, amended: the tokens from the first non-option token on are never
\* scanned: they end nothing, and the result (the returned index and every
\* field) is that of parsing the prefix before that token, except for
\* has-trailing-command, which is true because those tokens are there.
C5_CommandNotScanned ==
    /\ (pc = "returned" /\ retval < argc(argv)) =>
           LET P == cl_parser(SubSeq(argv, 1, retval), res) IN
           /\ P.pc = "returned" /\ P.retval = retval
           /\ P.clo.command = FALSE
           /\ clo = [P.clo EXCEPT !.command = TRUE]
           /\ P.Out_lf_fmt = Out_lf_fmt
    /\ (pc = "returned" /\ retval = argc(argv)) =>
           \A sfx \in CommandSuffixes :
               LET F == cl_parser(argv \o sfx, res) IN
               /\ F.pc = "returned" /\ F.retval = retval
               /\ clo.command = FALSE
               /\ F.clo = [clo EXCEPT !.command = TRUE]
               /\ F.Out_lf_fmt = Out_lf_fmt

\* `-t ls -Z' has returned: -Z belongs to the command
C5_Witness ==
    /\ pc = "returned" /\ argv = <<prog, s_t, v_ls, s_Z>>
    /\ retval = 2 /\ clo.timestamp = TRUE /\ clo.command = TRUE

(***************************************************************************)
(* An unrecognized option                                                  *)
(***************************************************************************)
UnknownForms == {s_Z, l_bogus}

\* the scan is about to read an option that no descriptor matches: a whole
\* token, or Z inside a cluster
AtUnknown ==
    /\ pc = "loop" /\ optind < argc(argv)
    /\ IF nextchar = <<>> THEN Arg(argv, optind) \in UnknownForms
       ELSE Head(nextchar) = "Z"

\* C6: an unrecognized option ends the run with failure status after the
\* usage is printed on stderr, and the configuration is then the result of
\* the options before it: the unrecognized option changes no field.
C6_UnknownOptionFatal ==
    AtUnknown =>
        LET F == Run(State, 0) IN
        /\ F.pc = "exited" /\ F.exit_status = EXIT_FAILURE
        /\ Len(F.output) = Len(output) + 2
        /\ SubSeq(F.output, 1, Len(output)) = output
        /\ F.output[Len(F.output) - 1].stream = "stderr"
        /\ F.output[Len(F.output)] = Stderr("fprint_help")
        /\ F.clo = clo /\ F.Out_lf_fmt = Out_lf_fmt
        /\ nextchar = <<>> =>
               LET P == cl_parser(SubSeq(argv, 1, optind), 0) IN
               /\ P.pc = "returned"
               /\ F.clo = P.clo /\ F.Out_lf_fmt = P.Out_lf_fmt

\* `-t -Z' has exited: -t was applied, -Z changed nothing
C6_Witness ==
    /\ pc = "exited" /\ exit_status = EXIT_FAILURE /\ c = "?"
    /\ argv = <<prog, s_t, s_Z>> /\ clo.timestamp = TRUE

(***************************************************************************)
(* -l / --format                                                           *)
(***************************************************************************)
FormatTokens == {s_l, l_format, s_t, v_list, v_LIST, v_help, v_Help,
                 v_lis, v_hex}

\* -l hex -l LIST
FormatExample == <<prog, s_l, v_hex, s_l, v_LIST>>

InitFormat ==
    \E av \in Argvs(FormatTokens, MaxArgs) \cup {FormatExample} : Enter(av)

SpecFormat == InitFormat /\ [][Next]_vars

\* the values of FormatTokens that are `help' or `list' in some case
ReservedFormats == {v_list, v_LIST, v_help, v_Help}

\* C7: -l/--format with a value that is `help' or `list' in any case ends
\* the run with success status and leaves the output format (string and
\* enum) as it was; any other value is stored and the enum is resolved
\* from it by out_fmt_str2enum.
C7_FormatReserved ==
    [][(pc = "switch" /\ c = "l") =>
         IF optarg \in ReservedFormats
         THEN /\ pc' = "exited" /\ exit_status' = EXIT_SUCCESS
              /\ clo' = clo /\ Out_lf_fmt' = Out_lf_fmt
         ELSE /\ pc' = "loop"
              /\ clo' = [clo EXCEPT !.out_fmt_str = optarg]
              /\ Out_lf_fmt' = out_fmt_str2enum(optarg)]_vars

\* `-l hex -l LIST' has exited: the format is still hex
C7_Witness ==
    /\ pc = "exited" /\ exit_status = EXIT_SUCCESS
    /\ c = "l" /\ optarg = v_LIST /\ argv = FormatExample
    /\ clo.out_fmt_str = v_hex /\ Out_lf_fmt = out_fmt_str2enum(v_hex)

(***************************************************************************)
(* -e / --expr                                                             *)
(***************************************************************************)
ExprTokens == {s_e, l_expr, s_t, v_help, v_list, v_LIST, v_trace_list,
               v_trace_help, v_trace_HELP, v_trace_open, v_openat}

\* -e openat --expr trace=HELP
ExprExample == <<prog, s_e, v_openat, l_expr, v_trace_HELP>>

InitExpr ==
    \E av \in Argvs(ExprTokens, MaxArgs) \cup {ExprExample} : Enter(av)

SpecExpr == InitExpr /\ [][Next]_vars

\* C8: -e/--expr with `help' or `list' (any case) prints the expression
\* help, with `trace=help' or `trace=list' (any case) prints the list of
\* syscall sets; both end the run with success status and store nothing.
\* Any other value is stored as the expression, unchanged, and the scan
\* goes on.
C8_ExprReserved ==
    [][(pc = "switch" /\ c = "e") =>
         IF optarg \in {v_help, v_list, v_LIST}
         THEN /\ pc' = "exited" /\ exit_status' = EXIT_SUCCESS
              /\ clo' = clo
              /\ output' = output \o <<INFO("list of supported expressions")>>
         ELSE IF optarg \in {v_trace_list, v_trace_help, v_trace_HELP}
         THEN /\ pc' = "exited" /\ exit_status' = EXIT_SUCCESS
              /\ clo' = clo
              /\ output' = output \o <<Stderr("fprint_trace_list"),
                                       INFO("you can combine sets")>>
         ELSE /\ pc' = "loop"
              /\ clo' = [clo EXCEPT !.expr = optarg]
              /\ output' = output]_vars

\* `-e openat --expr trace=HELP' has exited: the expression is still openat
C8_Witness ==
    /\ pc = "exited" /\ exit_status = EXIT_SUCCESS
    /\ c = "e" /\ optarg = v_trace_HELP
    /\ argv = ExprExample
    /\ clo.expr = v_openat

(***************************************************************************)
(* Short and long forms                                                    *)
(***************************************************************************)
\* section 6 of the specification: the short and the long form of each
\* option, and the two ways of attaching a value
FormPairs ==
    {<<s_t, l_timestamp>>, <<s_X, l_failed>>, <<s_h, l_help>>,
     <<s_d, l_debug>>, <<s_L, l_list>>, <<s_R, l_ll_list>>,
     <<s_B, l_builtin_list>>, <<s_r, l_no_progress>>, <<s_p, l_pid>>,
     <<s_l, l_format>>, <<s_s, l_string_args>>, <<s_e, l_expr>>,
     <<s_o, l_output>>, <<s_N, l_ebpf_src_dir>>, <<s_K, l_hex_separator>>,
     <<s_f, l_full_follow_fork>>,
     <<s_p42, l_pid_eq_42>>, <<s_fx, l_full_follow_fork_eq_x>>}

ShortForms == {p[1] : p \in FormPairs}

FormTokens == ShortForms \cup {s_Z, DashDash, v_42, v_help, v_ls}

InitForms == \E av \in Argvs(FormTokens, MaxArgs) : Enter(av)

SpecForms == InitForms /\ [][Next]_vars

LongForm(tok) ==
    IF tok \in ShortForms THEN (CHOOSE p \in FormPairs : p[1] = tok)[2]
    ELSE tok

\* av with every option occurrence from index i on in its long form; the
\* value of an option and the tokens of the command stay as they are
RECURSIVE ToLongFrom(_, _)
ToLongFrom(av, i) ==
    IF i >= argc(av) THEN av
    ELSE IF Arg(av, i) = DashDash \/ ~LooksLikeOption(Arg(av, i)) THEN av
    ELSE ToLongFrom([av EXCEPT ![i + 1] = LongForm(Arg(av, i))],
                    IF Arg(av, i) \in RequiredForms THEN i + 2 ELSE i + 1)

ToLong(av) == ToLongFrom(av, 1)

\* what the caller sees of a finished run (the wording of the messages of
\* getopt_long aside)
Outcome(S) ==
    [pc |-> S.pc, exit_status |-> S.exit_status, retval |-> S.retval,
     clo |-> S.clo, Out_lf_fmt |-> S.Out_lf_fmt]

\* C9: a command line and the command line with its options in their long
\* forms (same values) have the same outcome: the same configuration and
\* returned index, or the same exit status.
C9_ShortLongSame ==
    Terminal(State) => Outcome(State) = Outcome(cl_parser(ToLong(argv), res))

\* `-X -p 42' has returned, with the outcome of `--failed --pid 42'
C9_Witness ==
    /\ pc = "returned" /\ argv = <<prog, s_X, s_p, v_42>>
    /\ ToLong(argv) = <<prog, l_failed, l_pid, v_42>>
    /\ clo.failed = TRUE /\ clo.pid = 42

(***************************************************************************)
(* Exit statuses                                                           *)
(***************************************************************************)
ExitTokens == {s_h, l_help, s_L, s_R, s_e, s_l, s_p, s_t, s_Z, l_bogus,
               v_help, v_trace_list, v_0, v_42, v_4x}

InitExit == \E av \in Argvs(ExitTokens, MaxArgs) : Enter(av)

SpecExit == InitExit /\ [][Next]_vars

\* the run ended on a help or listing action
HelpOrListing ==
    \/ c \in {"h", "L", "R"}
    \/ c \in {"e", "l"} /\ optarg \in {v_help, v_trace_list}

\* the run ended on a malformed command line: a missing value or an
\* unknown option (getopt_long returned '?'), or an invalid pid
Malformed == c = "?" \/ c = "p"

\* the exit status of every run the parser ends itself: 0 on a help or
\* listing action, 1 on a missing value, an unknown option or a pid value
\* it rejects
DetectedExitStatus ==
    pc = "exited" =>
        /\ HelpOrListing \/ Malformed
        /\ HelpOrListing => exit_status = 0 /\ exit_status = EXIT_SUCCESS
        /\ Malformed => exit_status = 1 /\ exit_status = EXIT_FAILURE

\* C10: a run that ends on a help or listing action (-h, -L, -R, -e or -l
\* with a reserved word) has exit status 0 whatever options came before,
\* and every malformed command line (missing value, unknown option, invalid
\* pid) ends the run with exit status 1; never the other way round.
C10_ExitStatus ==
    /\ DetectedExitStatus
    /\ (PidHandled /\ ~IsIntegerLiteral(optarg)) =>
           (pc = "exited" /\ exit_status = EXIT_FAILURE)

(***************************************************************************)
(* -B / --builtin-list                                                     *)
(***************************************************************************)
TableTokens == {s_B, l_builtin_list, s_t, s_tX, s_p, v_42, v_ls}

InitTable == \E av \in Argvs(TableTokens, MaxArgs) : Enter(av)

SpecTable == InitTable /\ [][Next]_vars

\* C11, as claimed: -B always ends the run; the exit status is success for
\* r = 1, failure for r = 0 and r itself for every other value r that
\* print_syscalls_table returns.
C11_AsClaimed ==
    [][(pc = "switch" /\ c = "B") =>
         /\ pc' = "exited"
         /\ exit_status' = IF res' = 1 THEN EXIT_SUCCESS
                           ELSE IF res' = 0 THEN EXIT_FAILURE
                           ELSE res']_vars

\* C11, amended: -B always ends the run and writes no field; the exit
\* status is success for r = 1, failure for r = 0, and for every other r
\* the low 8 bits of r (r mod 256), which is r itself only for 2..255.
C11_TableStatus ==
    [][(pc = "switch" /\ c = "B") =>
         /\ pc' = "exited" /\ clo' = clo
         /\ res' \in TableResults
         /\ exit_status' = IF res' = 1 THEN EXIT_SUCCESS
                           ELSE IF res' = 0 THEN EXIT_FAILURE
                           ELSE res' % 256
         /\ res' \in 2..255 => exit_status' = res']_vars

\* `-t -B' has exited with status 0 although the table routine returned 256
C11_Witness ==
    /\ pc = "exited" /\ c = "B" /\ res = 256 /\ exit_status = 0
    /\ clo.timestamp = TRUE

(***************************************************************************)
(* Repeated options                                                        *)
(***************************************************************************)
LastTokens ==
    {s_f, s_fx, l_full_follow_fork_eq_x, s_p, s_p42, v_100, s_t, s_tX, s_o,
     v_x, s_K, s_l, v_hex, v_ls}

LastExample == <<prog, s_p42, s_fx, s_p, v_100, s_f, v_ls>>

InitLast == \E av \in Argvs(LastTokens, MaxArgs) \cup {LastExample} : Enter(av)

SpecLast == InitLast /\ [][Next]_vars

\* the occurrences the scan dispatches from S on: the option character and
\* its value, in order
RECURSIVE Occurrences(_)
Occurrences(S) ==
    IF S.pc = "loop" THEN Occurrences(GetoptStep(S))
    ELSE IF S.pc = "switch"
    THEN <<[c |-> S.c, optarg |-> S.optarg]>> \o Occurrences(SwitchStep(S, 1))
    ELSE <<>>

\* only the last occurrence of each option, in the order of the scan
RECURSIVE KeepLast(_)
KeepLast(occs) ==
    IF occs = <<>> THEN <<>>
    ELSE IF \E j \in 2..Len(occs) : occs[j].c = occs[1].c
    THEN KeepLast(Tail(occs))
    ELSE <<occs[1]>> \o KeepLast(Tail(occs))

\* the switch applied to each of the occurrences in turn
RECURSIVE Dispatch(_, _)
Dispatch(S, occs) ==
    IF occs = <<>> \/ S.pc = "exited" THEN S
    ELSE Dispatch(SwitchStep([S EXCEPT !.c = occs[1].c,
                                       !.optarg = occs[1].optarg,
                                       !.pc = "switch"], 1), Tail(occs))

\* the outcome of the call when only the last occurrence of each option of
\* argv is dispatched, the command being the one of argv
LastWins ==
    LET occs == KeepLast(Occurrences(InitState(argv)))
        S == Dispatch(InitState(argv), occs)
    IN  IF S.pc = "exited" THEN S
        ELSE ReturnStep([S EXCEPT !.optind = optind, !.pc = "break"])

\* an occurrence of -f / --full-follow-fork with a value
SomeForkValue ==
    LET occs == Occurrences(InitState(argv)) IN
    \E i \in 1..Len(occs) : occs[i].c = "f" /\ occs[i].optarg # NULL

\* C12, as claimed: when the call returns, the configuration is the one that
\* the last occurrence of each option alone gives, -f included.
C12_AsClaimed ==
    pc = "returned" =>
        /\ LastWins.pc = "returned"
        /\ clo = LastWins.clo /\ Out_lf_fmt = LastWins.Out_lf_fmt

\* C12, amended: when the call returns, every field but separate-logs is
\* the one that the last occurrence of each option alone gives, and
\* separate-logs is true iff some occurrence of -f, not only the last, had
\* a value; each result of getopt_long is dispatched by the switch exactly
\* once before the next one is fetched.
C12_LastWins ==
    /\ [](pc = "returned" =>
            /\ LastWins.pc = "returned"
            /\ [clo EXCEPT !.ff_separate_logs = FALSE]
                 = [LastWins.clo EXCEPT !.ff_separate_logs = FALSE]
            /\ Out_lf_fmt = LastWins.Out_lf_fmt
            /\ clo.ff_separate_logs = SomeForkValue)
    /\ [][/\ pc = "loop" => pc' \in {"switch", "break"}
          /\ pc = "switch" => pc' \in {"loop", "exited"}]_vars

\* `-p42 -fx -p 100 -f ls' has returned with pid 100, the later value, and
\* with separate-logs still true after the later -f without a value
C12_Witness ==
    /\ pc = "returned" /\ argv = LastExample
    /\ clo.pid = 100 /\ clo.ff_mode = "E_FF_FULL"
    /\ clo.ff_separate_logs = TRUE /\ LastWins.clo.ff_separate_logs = FALSE
    /\ Len(Occurrences(InitState(argv))) = 4
    /\ Len(KeepLast(Occurrences(InitState(argv)))) = 2

(***************************************************************************)
(* Immediate termination                                                   *)
(***************************************************************************)
StopTokens ==
    {s_h, s_Z, s_B, s_L, s_t, s_o, s_p, v_0, v_4x, v_42, s_e, v_trace_list,
     s_l, v_LIST, v_ls}

InitStop == \E av \in Argvs(StopTokens, MaxArgs) : Enter(av)

SpecStop == InitStop /\ [][Next]_vars

\* an occurrence asks for help or for a listing
HelpOrListingAction(occ) ==
    \/ occ.c \in {"h", "L", "R", "B"}
    \/ occ.c = "e" /\ occ.optarg \in {v_trace_list, v_LIST}
    \/ occ.c = "l" /\ occ.optarg = v_LIST

\* an occurrence is a missing value or an unknown option
ScanError(occ) == occ.c = "?"

\* an occurrence of -p with a value that is no integer >= 1
InvalidPid(occ) ==
    /\ occ.c = "p"
    /\ ~IsIntegerLiteral(occ.optarg) \/ IntegerLiteralValue(occ.optarg) < 1

\* an occurrence of -p with a value that atoi reads as less than 1
RejectedPid(occ) == occ.c = "p" /\ atoi(occ.optarg) < 1

\* the status of a terminal action; r is the result of the table routine
ActionStatus(occ, r) ==
    IF occ.c = "B" THEN (IF r = 1 THEN 0 ELSE IF r = 0 THEN 1 ELSE r % 256)
    ELSE IF HelpOrListingAction(occ) THEN 0 ELSE 1

\* the index in occs of the first terminal action, 0 if there is none
FirstTerminal(occs, BadPid(_)) ==
    LET T == {i \in 1..Len(occs) :
                 HelpOrListingAction(occs[i]) \/ ScanError(occs[i])
                     \/ BadPid(occs[i])}
    IN  IF T = {} THEN 0 ELSE CHOOSE i \in T : \A j \in T : i <= j

\* the first terminal action of argv, BadPid saying which pid values are
\* invalid, ends the run with its status and with the fields the
\* occurrences before it gave (and the pid just read, for -p); no later
\* occurrence is dispatched; a returned call had no terminal action
StopsAtFirst(BadPid(_)) ==
    LET occs == Occurrences(InitState(argv))
        k == FirstTerminal(occs, BadPid)
    IN  /\ pc = "returned" => k = 0
        /\ pc = "exited" =>
              /\ k > 0 /\ k = Len(occs)
              /\ c = occs[k].c /\ optarg = occs[k].optarg
              /\ exit_status = ActionStatus(occs[k], res)
              /\ [clo EXCEPT !.pid = 0] =
                   [Dispatch(InitState(argv), SubSeq(occs, 1, k - 1)).clo
                       EXCEPT !.pid = 0]
              /\ clo.command = FALSE
        /\ (pc \in {"loop", "switch", "break"} /\ k > 0) =>
              Len(Occurrences(State)) > 0

\* the same for the pid values the code rejects (atoi(optarg) < 1): every
\* terminal action the code takes ends the run at once
DetectedTermination == StopsAtFirst(RejectedPid)

\* C13: the first token, from left to right, that triggers a terminal
\* action (help or listing, missing value, unknown option, invalid pid)
\* ends the run with that action's status, nothing after it is scanned or
\* applied, and a call returns only if no token before the command
\* triggers one; a pid value is invalid when it is no integer or is < 1.
C13_ImmediateTermination == StopsAtFirst(InvalidPid)

(***************************************************************************)
(* -K / --hex-separator                                                    *)
(***************************************************************************)
SeparatorTokens ==
    {s_K, l_hex_separator, s_Kcs, l_hex_separator_eq, v_cs, v_abc, v_x,
     v_empty, s_t, v_ls}

InitSeparator == \E av \in Argvs(SeparatorTokens, MaxArgs) : Enter(av)

SpecSeparator == InitSeparator /\ [][Next]_vars

\* the single characters a value of SeparatorTokens can give, the default
\* and the NUL that ends an empty value
SeparatorChars ==
    {InitClo.out_lf_fld_sep_ch, "NUL"}
        \cup {v[1] : v \in {w \in SeparatorTokens : w # <<>>}}

\* C14: -K/--hex-separator with value v sets field-separator-char to the
\* first character of v (the terminating NUL when v is empty) whatever
\* follows it in v, changes nothing else and goes on scanning; so the field
\* always holds exactly one character.
C14_SeparatorFirstChar ==
    /\ [][(pc = "switch" /\ c = "K") =>
            /\ pc' = "loop"
            /\ clo' = [clo EXCEPT !.out_lf_fld_sep_ch =
                          IF optarg = <<>> THEN "NUL" ELSE Head(optarg)]]_vars
    /\ [](clo.out_lf_fld_sep_ch \in SeparatorChars)

\* `-K,; -K abc' has returned with separator `a': the second character of
\* each value was ignored and the later value won
C14_Witness ==
    /\ pc = "returned" /\ argv = <<prog, s_Kcs, s_K, v_abc>>
    /\ clo.out_lf_fld_sep_ch = "a"

(***************************************************************************)
(* The value of an option of required arity                                *)
(***************************************************************************)
ValueTokens ==
    RequiredForms \cup {s_t, s_h, s_Z, l_timestamp, DashDash, Dash, v_42, v_ls}

InitValue == \E av \in Argvs(ValueTokens, MaxArgs) : Enter(av)

SpecValue == InitValue /\ [][Next]_vars

\* the scan is at an option of required arity given without an attached
\* value, and a token follows it
AtRequiredWithNext ==
    /\ pc = "loop" /\ nextchar = <<>>
    /\ optind < argc(argv) - 1
    /\ Arg(argv, optind) \in RequiredForms

\* the option character of a form of RequiredForms
RequiredChar(tok) ==
    IF tok \in ShortForms THEN tok[2]
    ELSE (CHOOSE p \in FormPairs : p[2] = tok)[1][2]

\* C15: an option of required arity (given without an attached value) takes
\* the token that follows it as its value whatever that token looks like
\* (`-t', `--timestamp', `--', `-Z'): no missing-value error is raised and
\* the scan goes on behind the value, so the value is never dispatched as an
\* option; -o stores it; `-o -t' returns with output-filename `-t' and
\* timestamp false.
C15_ValueConsumed ==
    /\ [][AtRequiredWithNext =>
            /\ pc' = "switch" /\ c' = RequiredChar(Arg(argv, optind))
            /\ optarg' = Arg(argv, optind + 1)
            /\ optind' = optind + 2 /\ nextchar' = <<>>
            /\ output' = output /\ clo' = clo]_vars
    /\ [][(pc = "switch" /\ c = "o") =>
            /\ pc' = "loop" /\ clo' = [clo EXCEPT !.out_fn = optarg]
            /\ output' = output]_vars
    /\ []((pc = "returned" /\ argv = <<prog, s_o, s_t>>) =>
            /\ clo = [InitClo EXCEPT !.out_fn = s_t]
            /\ retval = 3 /\ output = <<>>)

\* `-o -t' has returned: output-filename is `-t', timestamp is false and
\* nothing was reported
C15_Witness ==
    /\ pc = "returned" /\ argv = <<prog, s_o, s_t>>
    /\ clo.out_fn = s_t /\ clo.timestamp = FALSE /\ output = <<>>

(***************************************************************************)
(* The fields an action writes                                             *)
(***************************************************************************)
FrameTokens ==
    {s_r, s_t, s_X, s_d, s_p, s_p42, s_o, s_K, s_N, s_e, s_l, s_s, s_f, s_fx,
     s_h, s_Z, v_0, v_hex, v_ls}

FrameExample ==
    <<prog, s_p42, s_tX, s_K, v_hex, s_o, v_x, s_fx, s_l, v_hex, s_e,
      v_openat, s_N, v_x, s_s, v_x, s_r, s_d, v_ls>>

InitFrame ==
    \E av \in Argvs(FrameTokens, MaxArgs) \cup {FrameExample} : Enter(av)

SpecFrame == InitFrame /\ [][Next]_vars

\* the fields of the configuration an action may write
OwnFields(ch) ==
    CASE ch = "r" -> {"do_not_print_progress"}
      [] ch = "t" -> {"timestamp"}
      [] ch = "X" -> {"failed"}
      [] ch = "d" -> {"debug"}
      [] ch = "p" -> {"pid"}
      [] ch = "o" -> {"out_fn"}
      [] ch = "K" -> {"out_lf_fld_sep_ch"}
      [] ch = "N" -> {"ebpf_src_dir"}
      [] ch = "e" -> {"expr"}
      [] ch = "l" -> {"out_fmt_str"}
      [] ch = "s" -> {"fnr_mode"}
      [] ch = "f" -> {"ff_mode", "ff_separate_logs"}
      [] OTHER    -> {}

NonTerminalActions ==
    {"r", "t", "X", "d", "p", "o", "K", "N", "e", "l", "s", "f"}

\* C16: a dispatch that goes on scanning is one of the twelve non-terminal
\* actions and changes no field of the configuration but its own (and the
\* resolved format enum only for -l); fetching the next option changes no
\* field; has-trailing-command changes only in the step that returns, so
\* it is false while scanning and on every exit.
C16_Frame ==
    /\ [][(pc = "switch" /\ pc' = "loop") =>
            /\ c \in NonTerminalActions
            /\ \A fld \in (DOMAIN clo) \ OwnFields(c) : clo'[fld] = clo[fld]
            /\ c # "l" => Out_lf_fmt' = Out_lf_fmt]_vars
    /\ [][pc = "loop" => (clo' = clo /\ Out_lf_fmt' = Out_lf_fmt)]_vars
    /\ [][clo'.command # clo.command =>
            (pc = "break" /\ pc' = "returned")]_vars
    /\ [](pc # "returned" => clo.command = FALSE)

\* the example has returned with every field set by its own option and with
\* has-trailing-command
C16_Witness ==
    /\ pc = "returned" /\ argv = FrameExample
    /\ clo = [do_not_print_progress |-> 1, timestamp |-> TRUE,
              failed |-> TRUE, debug |-> TRUE, pid |-> 42, out_fn |-> v_x,
              out_lf_fld_sep_ch |-> "h", ebpf_src_dir |-> v_x,
              expr |-> v_openat, out_fmt_str |-> v_hex,
              fnr_mode |-> choose_fnr_mode(v_x), ff_mode |-> "E_FF_FULL",
              ff_separate_logs |-> TRUE, command |-> TRUE]
    /\ Out_lf_fmt = out_fmt_str2enum(v_hex)

(***************************************************************************)
(* Flags stay set                                                          *)
(***************************************************************************)
FlagTokens ==
    {s_r, s_t, s_X, s_d, s_f, s_fx, s_tX, l_full_follow_fork,
     l_full_follow_fork_eq_x, l_no_progress, s_o, s_p, v_42, v_x, s_h, s_Z,
     v_ls}

InitFlag == \E av \in Argvs(FlagTokens, MaxArgs) : Enter(av)

SpecFlag == InitFlag /\ [][Next]_vars

\* the flags of a configuration that are set
FlagsSet(cfg) ==
    {f \in {"timestamp", "failed", "debug", "ff_separate_logs"} :
        cfg[f] = TRUE}
      \cup (IF cfg.do_not_print_progress # InitClo.do_not_print_progress
            THEN {"do_not_print_progress"} ELSE {})
      \cup (IF cfg.ff_mode = "E_FF_FULL" THEN {"ff_mode"} ELSE {})

\* C17: no step clears a flag: progress suppression, timestamp, failed-only,
\* debug, follow-fork mode = full and separate-logs, once set, are set in
\* every later state whatever options follow; a string field that was
\* stored is never NULL again; in particular -f without a value leaves
\* separate-logs as it was.
C17_FlagsStaySet ==
    /\ [][FlagsSet(clo) \subseteq FlagsSet(clo')]_vars
    /\ [][\A f \in {"out_fn", "ebpf_src_dir", "expr", "out_fmt_str"} :
            clo[f] # NULL => clo'[f] # NULL]_vars
    /\ [][(pc = "switch" /\ c = "f" /\ optarg = NULL) =>
            clo'.ff_separate_logs = clo.ff_separate_logs]_vars

\* `-tX -fx -f': the later -f without a value has been dispatched and
\* separate-logs, timestamp and failed-only are still set
C17_Witness ==
    /\ pc = "loop" /\ c = "f" /\ optarg = NULL /\ optind = 4
    /\ argv = <<prog, s_tX, s_fx, s_f>>
    /\ FlagsSet(clo) = {"timestamp", "failed", "ff_mode", "ff_separate_logs"}

(***************************************************************************)
(* Termination                                                             *)
(***************************************************************************)
LoopTokens == {s_tX, s_tZ, s_p, v_42, v_empty}

InitLoop == \E av \in Argvs(LoopTokens, MaxArgs) \cup {Example} : Enter(av)

\* the loop is not suspended: a step that can be taken is taken
SpecLoop == InitLoop /\ [][Next]_vars /\ WF_vars(Next)

\* the characters of the elements i .. argc-1 of av, one more for each
\* element
RECURSIVE Unscanned(_, _)
Unscanned(av, i) ==
    IF i >= argc(av) THEN 0 ELSE Len(Arg(av, i)) + 1 + Unscanned(av, i + 1)

\* what is left to scan: the rest of the cluster of short options the scan
\* is in, and the elements behind it
Remaining ==
    IF nextchar # <<>> THEN Len(nextchar) + Unscanned(argv, optind + 1)
    ELSE Unscanned(argv, optind)

\* the number of dispatch steps among the first n steps from S on
RECURSIVE Dispatches(_, _)
Dispatches(S, n) ==
    IF n = 0 \/ Terminal(S) THEN 0
    ELSE (IF S.pc = "switch" THEN 1 ELSE 0) + Dispatches(Step(S, 1), n - 1)

\* more steps than a run over argv can take if each dispatch step consumes
\* a character: two for each character and element, and the return
StepLimit == 2 * Unscanned(argv, 1) + 4

\* C18: every call ends, either returned or exited, and nothing happens
\* after that; every call of getopt_long that yields an option to dispatch
\* consumes at least one character or token (what is left to scan gets
\* smaller and no step makes it larger), so the number of dispatch steps is
\* at most the total length of the argument vector.
C18_Terminates ==
    /\ <>(pc \in {"returned", "exited"})
    /\ [][pc \notin {"returned", "exited"}]_vars
    /\ [][(pc = "loop" /\ pc' = "switch") => Remaining' < Remaining]_vars
    /\ [][Remaining' <= Remaining]_vars
    /\ [](Dispatches(InitState(argv), StepLimit) <= Unscanned(argv, 1))
    /\ [](Remaining >= 0)

\* `-t -p 100 -- ls -l' has returned after two dispatch steps with `ls -l'
\* left unscanned
C18_Witness ==
    /\ pc = "returned" /\ argv = Example
    /\ Dispatches(InitState(argv), StepLimit) = 2
    /\ Remaining = Unscanned(argv, 5) /\ Remaining < Unscanned(argv, 1)
====
